---- MODULE Spec2Model ----
(***************************************************************************)
(* Model of src/error.rs: the error type of the CBOR codec.  An Error is a *)
(* boxed ErrorImpl { code: ErrorCode, offset: u64 }.  The module builds    *)
(* errors (syntax, io, de::Error::custom, de::Error::invalid_type,         *)
(* ser::Error::custom) and reads them (offset, Display, Debug,             *)
(* description, cause).                                                    *)
(*                                                                         *)
(* Strings are TLA+ strings, \o is concatenation.  Values that implement   *)
(* fmt::Display are records with a kind; to_string renders them.  The      *)
(* grave accent of the source's texts is written as an apostrophe.         *)
(***************************************************************************)
EXTENDS Integers, Sequences, FiniteSets, TLC

VARIABLES err, built, ret, first, repeated

vars == <<err, built, ret, first, repeated>>

(***************************************************************************)
(* Bounds of the model.                                                    *)
(***************************************************************************)
\* offsets 0..MaxOffset are supplied to syntax (u64 in the source)
MaxOffset == 17
\* unsigned integers 0..MaxUnsigned are carried by de::Unexpected::Unsigned
MaxUnsigned == 5

Offsets == 0..MaxOffset

(***************************************************************************)
(* ErrorCode: the enum of src/error.rs lines 105-120.                      *)
(***************************************************************************)
PlainTags ==
  { "EofWhileParsingValue", "EofWhileParsingArray", "EofWhileParsingMap",
    "NumberOutOfRange", "LengthOutOfRange", "InvalidUtf8", "UnassignedCode",
    "UnexpectedCode", "TrailingData", "ArrayTooShort", "ArrayTooLong",
    "RecursionLimitExceeded" }

Plain(tag) == [tag |-> tag]

Message(s) == [tag |-> "Message", msg |-> s]

Io(e) == [tag |-> "Io", error |-> e]

(***************************************************************************)
(* std::io::Error values handed to Error::io.  The source only uses three  *)
(* renderings of one: fmt::Display (line 126), error::Error::description   *)
(* (line 37) and fmt::Debug (derived Debug of ErrorCode, line 104).        *)
(***************************************************************************)
IoErrors ==
  { [display |-> "disk full", description |-> "disk full",
     debug |-> "Custom { kind: Other, error: StringError(disk full) }"],
    [display |-> "No such file or directory (os error 2)",
     description |-> "entity not found",
     debug |-> "Os { code: 2, kind: NotFound }"],
    [display |-> "CBOR error", description |-> "CBOR error",
     debug |-> "Custom { kind: InvalidData, error: StringError(CBOR error) }"] }

(***************************************************************************)
(* Values implementing fmt::Display that are passed to custom: a string    *)
(* slice, or the fmt::Arguments built by format_args! (a sequence of       *)
(* already rendered pieces).                                               *)
(***************************************************************************)
Str(s) == [kind |-> "str", s |-> s]

Arguments(pieces) == [kind |-> "args", pieces |-> pieces]

RECURSIVE Concat(_)
Concat(pieces) ==
  IF pieces = <<>> THEN ""
  ELSE Head(pieces) \o Concat(Tail(pieces))

\* ToString::to_string of a Display value (lines 72 and 92)
to_string(m) ==
  IF m.kind = "str" THEN m.s ELSE Concat(m.pieces)

MsgTexts == { "missing field 'x'", "oops", "" }

Displayables ==
  { Str(s) : s \in MsgTexts }
    \cup { Arguments(<<"unknown variant '", v, "'">>) : v \in {"a", "bc"} }

(***************************************************************************)
(* Decimal rendering of an unsigned integer by the {} placeholder.         *)
(***************************************************************************)
Digit(d) ==
  CASE d = 0 -> "0" [] d = 1 -> "1" [] d = 2 -> "2" [] d = 3 -> "3"
    [] d = 4 -> "4" [] d = 5 -> "5" [] d = 6 -> "6" [] d = 7 -> "7"
    [] d = 8 -> "8" [] d = 9 -> "9"

RECURSIVE Decimal(_)
Decimal(n) ==
  IF n < 10 THEN Digit(n) ELSE Decimal(n \div 10) \o Digit(n % 10)

(***************************************************************************)
(* serde's de::Unexpected and de::Expected descriptors, as invalid_type    *)
(* receives them, with their own Display renderings.                       *)
(***************************************************************************)
Unexpecteds ==
  { [tag |-> "Unit"], [tag |-> "Map"], [tag |-> "Seq"] }
    \cup { [tag |-> "Bool", b |-> b] : b \in BOOLEAN }
    \cup { [tag |-> "Unsigned", n |-> n] : n \in 0..MaxUnsigned }

UnexpectedDisplay(unexp) ==
  CASE unexp.tag = "Unit" -> "unit value"
    [] unexp.tag = "Map" -> "map"
    [] unexp.tag = "Seq" -> "sequence"
    [] unexp.tag = "Bool" ->
         "boolean '" \o (IF unexp.b THEN "true" ELSE "false") \o "'"
    [] unexp.tag = "Unsigned" -> "integer '" \o Decimal(unexp.n) \o "'"

Expecteds == { "a string", "a map" }

ExpectedDisplay(exp) == exp

(***************************************************************************)
(* Constructors.                                                           *)
(***************************************************************************)
ErrorImpl(code, offset) == [code |-> code, offset |-> offset]

syntax_DropsOffset(code, offset) == ErrorImpl(code, 0)

\* Error::syntax, lines 22-24
syntax(code, offset) == ErrorImpl(code, offset)

\* Error::io, lines 26-31
io(error) == ErrorImpl(Io(error), 0)

de_custom_Localized(msg) == ErrorImpl(Message(to_string(msg)), 1)

\* <Error as de::Error>::custom, lines 67-75
de_custom(msg) == ErrorImpl(Message(to_string(msg)), 0)

ser_custom_Quoted(msg) ==
  ErrorImpl(Message("\"" \o to_string(msg) \o "\""), 0)

\* <Error as ser::Error>::custom, lines 87-95
ser_custom(msg) == ErrorImpl(Message(to_string(msg)), 0)

invalid_type_NoUnitCase(unexp, exp) ==
  de_custom(Arguments(<<"invalid type: ", UnexpectedDisplay(unexp),
                        ", expected ", ExpectedDisplay(exp)>>))

\* <Error as de::Error>::invalid_type, lines 77-83
invalid_type(unexp, exp) ==
  IF unexp.tag = "Unit"
  THEN de_custom(Arguments(<<"invalid type: null, expected ",
                             ExpectedDisplay(exp)>>))
  ELSE de_custom(Arguments(<<"invalid type: ", UnexpectedDisplay(unexp),
                             ", expected ", ExpectedDisplay(exp)>>))

\* every ErrorCode value a caller inside the crate can hand to syntax
Codes ==
  { Plain(t) : t \in PlainTags }
    \cup { Message(s) : s \in MsgTexts }
    \cup { Io(e) : e \in IoErrors }

(***************************************************************************)
(* Readers.                                                                *)
(***************************************************************************)
\* Error::offset, lines 18-20
offset(e) == e.offset

description_Constant(e) == "CBOR error"

\* <Error as error::Error>::description, lines 35-40
description(e) ==
  IF e.code.tag = "Io" THEN e.code.error.description ELSE "CBOR error"

cause_Never(e) == <<>>

\* <Error as error::Error>::cause, lines 42-47; Option is a sequence of
\* length at most one
cause(e) ==
  IF e.code.tag = "Io" THEN <<e.code.error>> ELSE <<>>

ErrorCodeDisplay_UnassignedCode(code) ==
  CASE code.tag = "Message" -> code.msg
    [] code.tag = "Io" -> code.error.display
    [] code.tag = "EofWhileParsingValue" -> "EOF while parsing a value"
    [] code.tag = "EofWhileParsingArray" -> "EOF while parsing an array"
    [] code.tag = "EofWhileParsingMap" -> "EOF while parsing a map"
    [] code.tag = "NumberOutOfRange" -> "number out of range"
    [] code.tag = "LengthOutOfRange" -> "length out of range"
    [] code.tag = "InvalidUtf8" -> "invalid UTF-8"
    [] code.tag = "UnassignedCode" -> "unassigned code"
    [] code.tag = "UnexpectedCode" -> "unexpected code"
    [] code.tag = "TrailingData" -> "trailing data"
    [] code.tag = "ArrayTooShort" -> "array too short"
    [] code.tag = "ArrayTooLong" -> "array too long"
    [] code.tag = "RecursionLimitExceeded" -> "recursion limit exceeded"

\* <ErrorCode as fmt::Display>::fmt, lines 122-141
ErrorCodeDisplay(code) ==
  CASE code.tag = "Message" -> code.msg
    [] code.tag = "Io" -> code.error.display
    [] code.tag = "EofWhileParsingValue" -> "EOF while parsing a value"
    [] code.tag = "EofWhileParsingArray" -> "EOF while parsing an array"
    [] code.tag = "EofWhileParsingMap" -> "EOF while parsing a map"
    [] code.tag = "NumberOutOfRange" -> "number out of range"
    [] code.tag = "LengthOutOfRange" -> "length out of range"
    [] code.tag = "InvalidUtf8" -> "invalid UTF-8"
    [] code.tag = "UnassignedCode" -> "unassigned type"
    [] code.tag = "UnexpectedCode" -> "unexpected code"
    [] code.tag = "TrailingData" -> "trailing data"
    [] code.tag = "ArrayTooShort" -> "array too short"
    [] code.tag = "ArrayTooLong" -> "array too long"
    [] code.tag = "RecursionLimitExceeded" -> "recursion limit exceeded"

ErrorDisplay_AlwaysSuffix(e) ==
  ErrorCodeDisplay(e.code) \o " at offset " \o Decimal(e.offset)

ErrorDisplay_NeverSuffix(e) == ErrorCodeDisplay(e.code)

\* <Error as fmt::Display>::fmt, lines 50-58
ErrorDisplay(e) ==
  IF e.offset = 0
  THEN ErrorCodeDisplay(e.code)
  ELSE ErrorCodeDisplay(e.code) \o " at offset " \o Decimal(e.offset)

\* derived Debug of ErrorCode, line 104.  No text of the model holds a
\* character that str's Debug would escape.
ErrorCodeDebug(code) ==
  CASE code.tag = "Message" -> "Message(\"" \o code.msg \o "\")"
    [] code.tag = "Io" -> "Io(" \o code.error.debug \o ")"
    [] OTHER -> code.tag

\* <Error as fmt::Debug>::fmt, lines 60-64, through the derived Debug of
\* ErrorImpl, line 98
ErrorDebug(e) ==
  "ErrorImpl { code: " \o ErrorCodeDebug(e.code) \o ", offset: "
    \o Decimal(e.offset) \o " }"

(***************************************************************************)
(* State.  err is the error value in hand (<<>> before any was built),     *)
(* built records the constructor call that made it, ret the last reader    *)
(* call and its result, first the result of the first call of each reader  *)
(* on the value in hand, repeated whether some reader has been called on   *)
(* it more than once.                                                      *)
(***************************************************************************)
ReadOps == { "offset", "display", "debug", "description", "cause" }

NoRet == [op |-> "none", num |-> 0, text |-> "", opt |-> <<>>]

NoFirst == [o \in ReadOps |-> <<>>]

Init ==
  /\ err = <<>>
  /\ built = [op |-> "none"]
  /\ ret = NoRet
  /\ first = NoFirst
  /\ repeated = FALSE

Build(e) ==
  /\ err' = <<e>>
  /\ ret' = NoRet
  /\ first' = NoFirst
  /\ repeated' = FALSE

Syntax ==
  \E code \in Codes, n \in Offsets :
    /\ built' = [code |-> code, offset |-> n, op |-> "syntax"]
    /\ Build(syntax(code, n))

IoFault ==
  \E error \in IoErrors :
    /\ built' = [error |-> error, op |-> "io"]
    /\ Build(io(error))

DeCustom ==
  \E msg \in Displayables :
    /\ built' = [msg |-> msg, op |-> "de_custom"]
    /\ Build(de_custom(msg))

SerCustom ==
  \E msg \in Displayables :
    /\ built' = [msg |-> msg, op |-> "ser_custom"]
    /\ Build(ser_custom(msg))

InvalidType ==
  \E unexp \in Unexpecteds, exp \in Expecteds :
    /\ built' = [unexp |-> unexp, exp |-> exp, op |-> "invalid_type"]
    /\ Build(invalid_type(unexp, exp))

Read_TakesOffset(r) ==
  /\ err # <<>>
  /\ ret' = r
  /\ first' = IF first[r.op] = <<>> THEN [first EXCEPT ![r.op] = <<r>>]
              ELSE first
  /\ repeated' = (repeated \/ first[r.op] # <<>>)
  /\ err' = <<ErrorImpl(err[1].code, 0)>>
  /\ UNCHANGED built

\* a reader takes &self: it returns r and leaves the value alone
Read(r) ==
  /\ err # <<>>
  /\ ret' = r
  /\ first' = IF first[r.op] = <<>> THEN [first EXCEPT ![r.op] = <<r>>]
              ELSE first
  /\ repeated' = (repeated \/ first[r.op] # <<>>)
  /\ UNCHANGED <<err, built>>

CallOffset ==
  /\ err # <<>>
  /\ Read([op |-> "offset", num |-> offset(err[1]), text |-> "",
           opt |-> <<>>])

CallDisplay ==
  /\ err # <<>>
  /\ Read([op |-> "display", num |-> 0, text |-> ErrorDisplay(err[1]),
           opt |-> <<>>])

CallDebug ==
  /\ err # <<>>
  /\ Read([op |-> "debug", num |-> 0, text |-> ErrorDebug(err[1]),
           opt |-> <<>>])

CallDescription ==
  /\ err # <<>>
  /\ Read([op |-> "description", num |-> 0, text |-> description(err[1]),
           opt |-> <<>>])

CallCause ==
  /\ err # <<>>
  /\ Read([op |-> "cause", num |-> 0, text |-> "", opt |-> cause(err[1])])

Next ==
  \/ Syntax
  \/ IoFault
  \/ DeCustom
  \/ SerCustom
  \/ InvalidType
  \/ CallOffset
  \/ CallDisplay
  \/ CallDebug
  \/ CallDescription
  \/ CallCause

Spec == Init /\ [][Next]_vars

TypeOK ==
  /\ Len(err) <= 1
  /\ ret.op \in ReadOps \cup {"none"}
  /\ DOMAIN first = ReadOps
  /\ repeated \in BOOLEAN

(***************************************************************************)
(* The Display text table of the specification, section 4.3.               *)
(***************************************************************************)
FixedText ==
  [t \in PlainTags |->
     CASE t = "EofWhileParsingValue" -> "EOF while parsing a value"
       [] t = "EofWhileParsingArray" -> "EOF while parsing an array"
       [] t = "EofWhileParsingMap" -> "EOF while parsing a map"
       [] t = "NumberOutOfRange" -> "number out of range"
       [] t = "LengthOutOfRange" -> "length out of range"
       [] t = "InvalidUtf8" -> "invalid UTF-8"
       [] t = "UnassignedCode" -> "unassigned type"
       [] t = "UnexpectedCode" -> "unexpected code"
       [] t = "TrailingData" -> "trailing data"
       [] t = "ArrayTooShort" -> "array too short"
       [] t = "ArrayTooLong" -> "array too long"
       [] t = "RecursionLimitExceeded" -> "recursion limit exceeded"]

CategoryText(code) ==
  IF code.tag = "Message" THEN code.msg
  ELSE IF code.tag = "Io" THEN code.error.display
  ELSE FixedText[code.tag]

\* the display text of each value handed to custom, written out
DisplayTextOf(m) ==
  CASE m = Arguments(<<"unknown variant '", "a", "'">>) ->
         "unknown variant 'a'"
    [] m = Arguments(<<"unknown variant '", "bc", "'">>) ->
         "unknown variant 'bc'"
    [] m.kind = "str" -> m.s

Displayed == ret.op = "display"

(***************************************************************************)
(* C1: an error whose offset is 0 displays exactly its category's own text *)
(* (fixed text, message text or the wrapped io error's text), with no      *)
(* " at offset ..." suffix; syntax(RecursionLimitExceeded, 0) displays     *)
(* "recursion limit exceeded".                                             *)
(***************************************************************************)
C1_DisplayAtOffsetZero ==
  /\ (Displayed /\ err[1].offset = 0) =>
       ret.text = ErrorCodeDisplay(err[1].code)
  /\ (Displayed /\ built = [code |-> Plain("RecursionLimitExceeded"),
                            offset |-> 0, op |-> "syntax"]) =>
       ret.text = "recursion limit exceeded"

C1_Witness ==
  /\ Displayed
  /\ built.op = "syntax"
  /\ built.code.tag = "RecursionLimitExceeded"
  /\ err[1].offset = 0

(***************************************************************************)
(* C2: an error whose offset is greater than 0 displays its category's     *)
(* text, then " at offset ", then the offset in decimal;                   *)
(* syntax(EofWhileParsingArray, 17) displays                               *)
(* "EOF while parsing an array at offset 17".                              *)
(***************************************************************************)
C2_DisplayAtPositiveOffset ==
  /\ (Displayed /\ err[1].offset > 0) =>
       ret.text = ErrorCodeDisplay(err[1].code) \o " at offset "
                    \o ToString(err[1].offset)
  /\ (Displayed /\ built = [code |-> Plain("EofWhileParsingArray"),
                            offset |-> 17, op |-> "syntax"]) =>
       ret.text = "EOF while parsing an array at offset 17"

C2_Witness ==
  /\ Displayed
  /\ built.op = "syntax"
  /\ built.code.tag = "EofWhileParsingArray"
  /\ err[1].offset = 17

(***************************************************************************)
(* C3: offset() returns the offset given to syntax, for every code and     *)
(* every offset, and 0 for an error built by io, by either custom or by    *)
(* invalid_type.                                                           *)
(***************************************************************************)
C3_OffsetIsTheOneSupplied ==
  ret.op = "offset" =>
    ret.num = (IF built.op = "syntax" THEN built.offset ELSE 0)

C3_Witness ==
  /\ ret.op = "offset"
  /\ built.op = "syntax"
  /\ built.offset = 17
  /\ ret.num = 17

(***************************************************************************)
(* C4: invalid_type(actual, expected) builds a Message error that displays *)
(* "invalid type: null, expected E" when actual is the unit descriptor and *)
(* "invalid type: A, expected E" otherwise, A and E being the descriptors' *)
(* own display texts; the unit descriptor's own text is never used.        *)
(***************************************************************************)
C4_InvalidTypeText ==
  built.op = "invalid_type" =>
    /\ err[1].code.tag = "Message"
    /\ Displayed =>
         /\ ret.text =
              (IF built.unexp.tag = "Unit"
               THEN "invalid type: null, expected " \o built.exp
               ELSE "invalid type: " \o UnexpectedDisplay(built.unexp)
                      \o ", expected " \o built.exp)
         /\ ret.text # "invalid type: unit value, expected " \o built.exp
         /\ (built.unexp = [tag |-> "Unsigned", n |-> 5]
               /\ built.exp = "a string") =>
              ret.text = "invalid type: integer '5', expected a string"

C4_Witness ==
  /\ built.op = "invalid_type"
  /\ built.unexp.tag = "Unit"
  /\ built.exp = "a string"
  /\ Displayed
  /\ ret.text = "invalid type: null, expected a string"

(***************************************************************************)
(* C5: cause() returns the wrapped io error if and only if the code is Io; *)
(* for Message and the twelve plain codes it returns None, whatever the    *)
(* offset.                                                                 *)
(***************************************************************************)
C5_CauseIffIo ==
  ret.op = "cause" =>
    /\ (ret.opt # <<>>) <=> (err[1].code.tag = "Io")
    /\ err[1].code.tag = "Io" => ret.opt = <<err[1].code.error>>

C5_Witness ==
  /\ ret.op = "cause"
  /\ err[1].code.tag = "Io"
  /\ err[1].offset > 0
  /\ ret.opt = <<err[1].code.error>>

(***************************************************************************)
(* C6: the category text that Display writes is the one of the             *)
(* specification's table for all fourteen categories, UnassignedCode being *)
(* "unassigned type".                                                      *)
(***************************************************************************)
C6_DisplayTable ==
  Displayed =>
    ret.text = CategoryText(err[1].code)
                 \o (IF err[1].offset = 0 THEN ""
                     ELSE " at offset " \o ToString(err[1].offset))

C6_Witness ==
  /\ Displayed
  /\ err[1].code.tag = "UnassignedCode"
  /\ ret.text = "unassigned type"

(***************************************************************************)
(* C7: a reader (offset, Display, Debug, description, cause) leaves the    *)
(* error's code and offset as they were and returns what its first call on *)
(* that error returned, in any order and any number of calls.              *)
(***************************************************************************)
C7_ReadersLeaveTheErrorAlone ==
  [][ret'.op \in ReadOps =>
       /\ err' = err
       /\ ret' = first'[ret'.op][1]]_vars

C7_Witness ==
  /\ repeated
  /\ \A o \in ReadOps : first[o] # <<>>
  /\ err[1].offset > 0
  /\ Displayed

(***************************************************************************)
(* C8, as stated: an error whose code is Message or Io has offset 0,       *)
(* whichever constructor built it.                                         *)
(***************************************************************************)
C8_MessageAndIoAreUnlocalized ==
  (err # <<>> /\ err[1].code.tag \in {"Message", "Io"}) =>
    err[1].offset = 0

(***************************************************************************)
(* C8, amended: io, both custom and invalid_type build an error whose code *)
(* is Message or Io and whose offset is 0; syntax keeps the offset it is   *)
(* given for every code, Message and Io included, so a Message or Io error *)
(* has a non-zero offset only when syntax built it with one.               *)
(***************************************************************************)
C8_OnlySyntaxLocalizes ==
  err # <<>> =>
    /\ built.op # "syntax" =>
         /\ err[1].code.tag \in {"Message", "Io"}
         /\ err[1].offset = 0
    /\ (err[1].code.tag \in {"Message", "Io"} /\ err[1].offset # 0) =>
         /\ built.op = "syntax"
         /\ built.offset = err[1].offset
         /\ built.code = err[1].code

C8_Witness ==
  /\ built.op = "de_custom"
  /\ err[1].code.tag = "Message"
  /\ err[1].offset = 0
  /\ ret.op = "offset"

(***************************************************************************)
(* C9: de::Error::custom(m) and ser::Error::custom(m) build the same       *)
(* error: code Message holding m's display text, offset 0, so that it      *)
(* displays exactly m; custom("missing field 'x'") displays                *)
(* "missing field 'x'".                                                    *)
(***************************************************************************)
C9_BothCustomsAgree ==
  built.op \in {"de_custom", "ser_custom"} =>
    /\ err[1] = [code |-> [tag |-> "Message",
                           msg |-> DisplayTextOf(built.msg)],
                 offset |-> 0]
    /\ err[1] = de_custom(built.msg)
    /\ err[1] = ser_custom(built.msg)
    /\ Displayed => ret.text = DisplayTextOf(built.msg)

C9_Witness ==
  /\ built.op = "ser_custom"
  /\ built.msg = Str("missing field 'x'")
  /\ Displayed
  /\ ret.text = "missing field 'x'"

(***************************************************************************)
(* C10: description() returns the wrapped io error's description when the  *)
(* code is Io and "CBOR error" for every other code, whatever the offset   *)
(* and the Display text; it differs from "CBOR error" only for an error    *)
(* that has a cause.                                                       *)
(***************************************************************************)
C10_Description ==
  ret.op = "description" =>
    /\ ret.text = (IF err[1].code.tag = "Io"
                   THEN err[1].code.error.description
                   ELSE "CBOR error")
    /\ ret.text # "CBOR error" =>
         /\ err[1].code.tag = "Io"
         /\ first["cause"] # <<>> => first["cause"][1].opt # <<>>

C10_Witness ==
  /\ ret.op = "description"
  /\ err[1].code.tag = "Io"
  /\ err[1].offset > 0
  /\ ret.text = "entity not found"
  /\ first["display"] # <<>>
  /\ first["cause"] # <<>>
====
